---- MODULE Spec2Model ----
(***************************************************************************)
(* Web image search of vorpng: WebSearchController.buscarImagem (query     *)
(* validation, error classification, content sniffing) on top of           *)
(* ImagesService.buscarImagem (backend fallback, result parsing, download  *)
(* with retry and an alternative strategy).                                *)
(*                                                                         *)
(* One search is modelled as the event loop runs it: an action is one      *)
(* resumption of the async call chain, from the event that wakes it (the   *)
(* HTTP request, a network reply, a timer) to the next await on the        *)
(* network or on a timer.  JavaScript strings are TLA+ strings, handled    *)
(* with Len, SubSeq and \o one UTF-16 code unit at a time.                 *)
(***************************************************************************)
EXTENDS Integers, Sequences, FiniteSets, TLC

VARIABLES
    pc,         \* where the call chain is suspended
    nodeEnv,    \* process.env.NODE_ENV
    query,      \* the raw "q" parameter of the request
    cleanQuery, \* the controller's cleanQuery, the service's query ("": not set)
    engineIdx,  \* index into searchEngines of the backend awaited (0: none)
    results,    \* per backend consulted so far, what trySearchEngine gave
    imagemUrl,  \* the URL handed to downloadImageWithRetry (Null: none)
    attempt,    \* loop counter of downloadImageWithRetry (0: not started)
    inflight,   \* the network request awaited (Null: none)
    trace,      \* requests issued, replies received and delays started, in order
    resultado,  \* what ImagesService.buscarImagem resolved to (Null: not yet)
    response,   \* the HTTP response sent (Null: not yet)
    log,        \* the network replies this search has consumed, in order
    peer,       \* the locals of a second search that is suspended (Null: none)
    pool        \* the USER_AGENTS field of the one ImagesService instance

vars == <<pc, nodeEnv, query, cleanQuery, engineIdx, results, imagemUrl, attempt,
          inflight, trace, resultado, response, log, peer, pool>>

Null == [null |-> TRUE]

----------------------------------------------------------------------------
(* Program constants *)

MaxQueryLength == 100
MaxRetries == 3
DelayStepMs == 1000
MinImageBytes == 512
BingCap == 5
DuckCap == 3
SearchTimeoutMs == 5000
DownloadTimeoutMs == 10000
AlternativeTimeoutMs == 15000
SearchMaxRedirects == 5
AlternativeMaxRedirects == 10
ErrorStatusFloor == 400

(* Bounds of the model *)

\* longest run of filler characters in a generated query
MaxPad == 101
\* largest number of identities of USER_AGENTS the model draws from
MaxIdentities == 2

----------------------------------------------------------------------------
(* JavaScript strings *)

\* the lower-case letter of each upper-case letter
LowerOf ==
    [A |-> "a", B |-> "b", C |-> "c", D |-> "d", E |-> "e", F |-> "f", G |-> "g",
     H |-> "h", I |-> "i", J |-> "j", K |-> "k", L |-> "l", M |-> "m", N |-> "n",
     O |-> "o", P |-> "p", Q |-> "q", R |-> "r", S |-> "s", T |-> "t", U |-> "u",
     V |-> "v", W |-> "w", X |-> "x", Y |-> "y", Z |-> "z"]

\* String.prototype.toLowerCase on one code unit
LowerChar(c) == IF c \in DOMAIN LowerOf THEN LowerOf[c] ELSE c

RECURSIVE ToLowerCase(_)
ToLowerCase(s) ==
    IF s = "" THEN ""
    ELSE LowerChar(SubSeq(s, 1, 1)) \o ToLowerCase(SubSeq(s, 2, Len(s)))

\* String.prototype.includes
Includes(s, t) ==
    \E i \in 0..(Len(s) - Len(t)) : SubSeq(s, i + 1, i + Len(t)) = t

\* String.prototype.startsWith
StartsWith(s, t) ==
    Len(s) >= Len(t) /\ SubSeq(s, 1, Len(t)) = t

\* the white space String.prototype.trim strips (the code units the model uses)
IsWhiteSpace(c) == c \in {" ", "\t", "\n"}

\* String.prototype.trim
Trim(s) ==
    LET keep == {i \in 1..Len(s) : ~IsWhiteSpace(SubSeq(s, i, i))}
    IN  IF keep = {} THEN ""
        ELSE LET first == CHOOSE i \in keep : \A j \in keep : i <= j
                 last  == CHOOSE i \in keep : \A j \in keep : j <= i
             IN  SubSeq(s, first, last)

\* stands for an unpaired UTF-16 surrogate (U+D800), which no TLA+ string
\* literal can hold; no other string of the model contains this code unit
LoneSurrogate == "¤"

\* encodeURIComponent throws URIError on an unpaired surrogate
EncodeURIComponentThrows(s) == Includes(s, LoneSurrogate)

RECURSIVE Repeat(_, _)
Repeat(c, n) == IF n <= 0 THEN "" ELSE c \o Repeat(c, n - 1)

RECURSIVE Digits(_)
\* Number.prototype.toString of a non-negative integer
Digits(n) ==
    IF n < 10 THEN SubSeq("0123456789", n + 1, n + 1)
    ELSE Digits(n \div 10) \o SubSeq("0123456789", (n % 10) + 1, (n % 10) + 1)

----------------------------------------------------------------------------
(* Query validation: WebSearchController.buscarImagem, before the search *)

forbiddenTerms == {"explicit", "nsfw", "adult"}

\* a query parameter is absent (undefined) or a string
Absent == [kind |-> "absent"]
Str(s) == [kind |-> "string", text |-> s]

\* !query || query.trim().length === 0
IsMissing(q) == q.kind = "absent" \/ q.text = "" \/ Len(Trim(q.text)) = 0

cleanQueryOf(q) == Trim(q.text)

\* ValidateQuery with the forbidden terms compared without toLowerCase
ValidateQueryCaseSensitive(q) ==
    IF IsMissing(q) THEN "MISSING_QUERY"
    ELSE LET clean == cleanQueryOf(q)
         IN  IF Len(clean) > MaxQueryLength THEN "QUERY_TOO_LONG"
             ELSE IF \E term \in forbiddenTerms : Includes(clean, term)
                  THEN "FORBIDDEN_QUERY"
             ELSE "ok"

\* ValidateQuery with the length compared by >= and before the emptiness test
ValidateQueryOffByOne(q) ==
    IF q.kind = "string" /\ Len(cleanQueryOf(q)) >= MaxQueryLength THEN "QUERY_TOO_LONG"
    ELSE IF IsMissing(q) THEN "MISSING_QUERY"
    ELSE IF \E term \in forbiddenTerms :
                Includes(ToLowerCase(cleanQueryOf(q)), term)
         THEN "FORBIDDEN_QUERY"
    ELSE "ok"

\* "ok", or the code of the 400 response the validation sends
ValidateQuery(q) ==
    IF IsMissing(q) THEN "MISSING_QUERY"
    ELSE LET clean == cleanQueryOf(q)
             lower == ToLowerCase(clean)
         IN  IF Len(clean) > MaxQueryLength THEN "QUERY_TOO_LONG"
             ELSE IF \E term \in forbiddenTerms : Includes(lower, term)
                  THEN "FORBIDDEN_QUERY"
             ELSE "ok"

ValidationMessage(code) ==
    CASE code = "MISSING_QUERY" -> "Parâmetro \"q\" é obrigatório e não pode estar vazio"
      [] code = "QUERY_TOO_LONG" -> "Termo de busca muito longo (máximo 100 caracteres)"
      [] code = "FORBIDDEN_QUERY" -> "Termo de busca não permitido"

----------------------------------------------------------------------------
(* URL validation: ImagesService.isValidImageUrl *)

invalidPatterns == {"data:image", ".svg", "logo", "icon", "avatar", "blank", "1x1"}

\* index of the first occurrence of code unit c in s, 0 when there is none
IndexOfChar(s, c) ==
    LET hits == {i \in 1..Len(s) : SubSeq(s, i, i) = c}
    IN  IF hits = {} THEN 0 ELSE CHOOSE i \in hits : \A j \in hits : i <= j

\* code units the URL parser refuses in the host of an http(s) URL
ForbiddenHostChars == {" ", "<", ">", "\"", "^", "|", "\t", "\n"}

RECURSIVE StripSlashes(_)
StripSlashes(s) ==
    IF s # "" /\ SubSeq(s, 1, 1) \in {"/", "\\"}
    THEN StripSlashes(SubSeq(s, 2, Len(s)))
    ELSE s

\* the host of what follows "http:" or "https:", up to the path, query or fragment
HostOf(rest) ==
    LET r    == StripSlashes(rest)
        ends == {i \in 1..Len(r) : SubSeq(r, i, i) \in {"/", "\\", "?", "#"}}
        stop == IF ends = {} THEN Len(r) + 1
                ELSE CHOOSE i \in ends : \A j \in ends : i <= j
    IN  SubSeq(r, 1, stop - 1)

\* whether new URL(url) returns instead of throwing, for a url that starts
\* with "http": it needs a scheme, and an http(s) URL needs a host
UrlParses(url) ==
    LET colon == IndexOfChar(url, ":")
    IN  IF colon = 0 THEN FALSE
        ELSE LET scheme == ToLowerCase(SubSeq(url, 1, colon - 1))
                 host   == HostOf(SubSeq(url, colon + 1, Len(url)))
             IN  IF scheme \in {"http", "https"}
                 THEN host # "" /\
                      \A i \in 1..Len(host) : SubSeq(host, i, i) \notin ForbiddenHostChars
                 ELSE \A i \in 1..Len(scheme) :
                          SubSeq(scheme, i, i) \notin ({"/", "?", "#"} \cup ForbiddenHostChars)

isValidImageUrl(url) ==
    IF url = "" \/ ~StartsWith(url, "http") THEN FALSE
    ELSE LET lowerUrl == ToLowerCase(url)
         IN  IF \E pattern \in invalidPatterns : Includes(lowerUrl, pattern) THEN FALSE
             ELSE UrlParses(url)

----------------------------------------------------------------------------
(* Result pages and their parsers: parseBingResults, parseDuckDuckGoResults *)
(*                                                                          *)
(* A page is the sequence of its elements in document order.  An attribute  *)
(* that is absent is "", which the parsers treat as they treat undefined.   *)
(* The attribute m carries its raw text and what JSON.parse makes of it.    *)

NoImg == [present |-> FALSE, src |-> "", dataSrc |-> ""]
Img(src, dataSrc) == [present |-> TRUE, src |-> src, dataSrc |-> dataSrc]

\* JSON.parse(raw): "SyntaxError"; "null" (reading .murl throws TypeError);
\* "object" whose murl is a string ("" when missing) or, with murlIsString
\* false, a truthy value that is no string (startsWith throws TypeError)
NoM == [raw |-> "", parsed |-> "SyntaxError", murlIsString |-> TRUE, murl |-> ""]
MJson(url) ==
    [raw |-> "{\"murl\":\"" \o url \o "\"}", parsed |-> "object",
     murlIsString |-> TRUE, murl |-> url]
MBroken(url) ==
    [raw |-> "{\"murl\":\"" \o url \o "\",", parsed |-> "SyntaxError",
     murlIsString |-> TRUE, murl |-> ""]
MNumber(url) ==
    [raw |-> "{\"murl\":7,\"x\":{\"murl\":\"" \o url \o "\"}}", parsed |-> "object",
     murlIsString |-> FALSE, murl |-> ""]

Element(tag, classes, m, src, dataSrc, img) ==
    [tag |-> tag, classes |-> classes, m |-> m, src |-> src, dataSrc |-> dataSrc,
     img |-> img]

\* whether element el matches a selector of the forms the engines use:
\* [class*="x"], .x, tag.x
Matches(el, selector) ==
    IF StartsWith(selector, "[class*=\"")
    THEN LET x == SubSeq(selector, 10, Len(selector) - 2)
         IN  \E c \in el.classes : Includes(c, x)
    ELSE LET dot == IndexOfChar(selector, ".")
             tag == SubSeq(selector, 1, dot - 1)
             cls == SubSeq(selector, dot + 1, Len(selector))
         IN  (tag = "" \/ el.tag = tag) /\ cls \in el.classes

\* $(selector): the matching elements in document order
Select(html, selector) == SelectSeq(html, LAMBDA el : Matches(el, selector))

\* mAttribute.match(/"murl":"([^"]+)"/): the capture of the leftmost match, "" when none
MurlRegex(raw) ==
    LET key    == "\"murl\":\""
        klen   == Len(key)
        quoteAfter(from) ==
            LET qs == {j \in from..Len(raw) : SubSeq(raw, j, j) = "\""}
            IN  IF qs = {} THEN 0 ELSE CHOOSE j \in qs : \A k \in qs : j <= k
        starts == {i \in 1..(Len(raw) - klen + 1) :
                      /\ SubSeq(raw, i, i + klen - 1) = key
                      /\ quoteAfter(i + klen) > i + klen}
    IN  IF starts = {} THEN ""
        ELSE LET i == CHOOSE a \in starts : \A b \in starts : a <= b
             IN  SubSeq(raw, i + klen, quoteAfter(i + klen) - 1)

\* whether the try block around JSON.parse(mAttribute) ends in its catch
BingTryThrows(m) ==
    \/ m.parsed = "SyntaxError"
    \/ m.parsed = "null"
    \/ m.parsed = "object" /\ ~m.murlIsString

\* a || b on attribute values: a unless it is "" (or undefined), then b
OrElse(a, b) == IF a # "" THEN a ELSE b

\* if (url && this.isValidImageUrl(url)) return url: the URL returned, "" to go on
ReturnIfValid(url) == IF url # "" /\ isValidImageUrl(url) THEN url ELSE ""

\* the URL the try block around JSON.parse(mAttribute), or its catch, tests
MurlCandidate(m) ==
    IF m.raw = "" THEN ""
    ELSE IF ~BingTryThrows(m) THEN m.murl
    ELSE MurlRegex(m.raw)

\* the body of parseBingResults' inner loop: the URL it returns, "" to go on
BingElement(el) ==
    OrElse(ReturnIfValid(MurlCandidate(el.m)),
           ReturnIfValid(OrElse(el.img.src, el.img.dataSrc)))

\* parseDuckDuckGoResults validating each attribute and taking the first that passes
DuckElementAnyAttribute(el) ==
    OrElse(ReturnIfValid(el.src), OrElse(ReturnIfValid(el.dataSrc), ReturnIfValid(el.img.src)))

\* the body of parseDuckDuckGoResults' inner loop
DuckElement(el) ==
    ReturnIfValid(OrElse(el.src, OrElse(el.dataSrc, el.img.src)))

Min(a, b) == IF a < b THEN a ELSE b

\* the first URL the loops return: selectors in order, at most cap elements
\* of each in document order; "" is the parsers' null
RECURSIVE FirstHit(_, _, _, _, _)
FirstHit(html, selectors, s, i, kind) ==
    IF s > Len(selectors) THEN ""
    ELSE IF i > Min(Len(Select(html, selectors[s])), IF kind = "Bing" THEN BingCap ELSE DuckCap)
    THEN FirstHit(html, selectors, s + 1, 1, kind)
    ELSE OrElse(IF kind = "Bing" THEN BingElement(Select(html, selectors[s])[i])
                ELSE DuckElement(Select(html, selectors[s])[i]),
                FirstHit(html, selectors, s, i + 1, kind))

parseBingResults(html, selectors) == FirstHit(html, selectors, 1, 1, "Bing")

parseDuckDuckGoResults(html, selectors) == FirstHit(html, selectors, 1, 1, "DuckDuckGo")

\* the searchEngines table of buscarImagemUrl
searchEngines ==
    << [name |-> "Bing", host |-> "https://www.bing.com",
        selectors |-> <<"a.iusc", ".iusc", "[class*=\"iusc\"]", ".mimg">>],
       [name |-> "DuckDuckGo", host |-> "https://duckduckgo.com",
        selectors |-> <<".tile--img__img", ".js-images-link">>] >>

EngineParser(engine, html) ==
    IF engine.name = "Bing" THEN parseBingResults(html, engine.selectors)
    ELSE parseDuckDuckGoResults(html, engine.selectors)

----------------------------------------------------------------------------
(* Byte buffers and the validity gate: ImagesService.isValidImageBuffer *)
(*                                                                      *)
(* A buffer is its length and its first bytes (at most 12 of them: no    *)
(* code reads further).                                                  *)

HeadBytes == 12

Buffer(len, bytes) ==
    [len |-> len, head |-> SubSeq(bytes, 1, Min(Min(len, HeadBytes), Len(bytes)))]

\* buffer[index]; reading past the end gives undefined, here -1
ByteAt(buffer, index) ==
    IF index < Len(buffer.head) THEN buffer.head[index + 1] ELSE -1

signatures ==
    { <<255, 216>>,            \* JPEG
      <<137, 80, 78, 71>>,     \* PNG
      <<71, 73, 70>>,          \* GIF
      <<82, 73, 70, 70>>,      \* WebP (RIFF)
      <<66, 77>> }             \* BMP

isValidImageBuffer(buffer) ==
    IF buffer.len < 4 THEN FALSE
    ELSE \E sig \in signatures :
            \A index \in 1..Len(sig) : ByteAt(buffer, index - 1) = sig[index]

----------------------------------------------------------------------------
(* The network: axios.get *)

USER_AGENTS ==
    << "Mozilla/5.0 (Windows NT 10.0; Win64; x64) AppleWebKit/537.36 (KHTML, like Gecko) Chrome/120.0.0.0 Safari/537.36",
       "Mozilla/5.0 (Macintosh; Intel Mac OS X 10_15_7) AppleWebKit/537.36 (KHTML, like Gecko) Chrome/120.0.0.0 Safari/537.36",
       "Mozilla/5.0 (Windows NT 10.0; Win64; x64; rv:120.0) Gecko/20100101 Firefox/120.0",
       "Mozilla/5.0 (X11; Linux x86_64) AppleWebKit/537.36 (KHTML, like Gecko) Chrome/120.0.0.0 Safari/537.36",
       "Mozilla/5.0 (Macintosh; Intel Mac OS X 10_15_7) AppleWebKit/605.1.15 (KHTML, like Gecko) Version/17.0 Safari/605.1.15",
       "Mozilla/5.0 (Windows NT 10.0; Win64; x64) AppleWebKit/537.36 (KHTML, like Gecko) Edge/120.0.0.0 Safari/537.36" >>

\* the values Math.floor(Math.random() * USER_AGENTS.length) + 1 takes in the model
IdentityChoices == 1..Min(MaxIdentities, Len(USER_AGENTS))

getRandomUserAgent(r) == pool[r]

\* encodeURIComponent on the code units the model's queries use
\* (it keeps A-Z a-z 0-9 - _ . ! ~ * ' ( ) and escapes the rest)
EscapedChars == " \t\n\":/?#&=+%"
EscapeCodes == <<"%20", "%09", "%0A", "%22", "%3A", "%2F", "%3F", "%23", "%26", "%3D", "%2B", "%25">>

EncodeChar(c) ==
    LET i == IndexOfChar(EscapedChars, c)
    IN  IF i = 0 THEN c ELSE EscapeCodes[i]

\* the code units lo..hi of s, encoded (halving keeps the evaluation shallow)
RECURSIVE EncodeFrom(_, _, _)
EncodeFrom(s, lo, hi) ==
    IF lo > hi THEN ""
    ELSE IF lo = hi THEN EncodeChar(SubSeq(s, lo, lo))
    ELSE EncodeFrom(s, lo, (lo + hi) \div 2) \o EncodeFrom(s, (lo + hi) \div 2 + 1, hi)

encodeURIComponent(s) == EncodeFrom(s, 1, Len(s))

EngineUrl(i, q) ==
    IF i = 1
    THEN "https://www.bing.com/images/search?q=" \o encodeURIComponent(q) \o "&form=HDRSC2&first=1"
    ELSE "https://duckduckgo.com/?q=" \o encodeURIComponent(q) \o "&t=h_&iax=images&ia=images"

\* a request: what the code passes to axios.get
Request(kind, url, userAgent, referer, timeout, maxRedirects, anyStatus) ==
    [kind |-> kind, url |-> url, userAgent |-> userAgent, referer |-> referer,
     timeout |-> timeout, maxRedirects |-> maxRedirects, anyStatus |-> anyStatus]

\* trySearchEngine's request to searchEngines[i]
SearchRequest(i, q, r) ==
    Request("search", EngineUrl(i, q), getRandomUserAgent(r), "",
            SearchTimeoutMs, SearchMaxRedirects, FALSE)

\* downloadImageWithRetry's request
DownloadRequest(url, r) ==
    Request("download", url, getRandomUserAgent(r), "https://www.bing.com/",
            DownloadTimeoutMs, SearchMaxRedirects, FALSE)

\* tryAlternativeDownload asking for another candidate than the one that failed
AlternativeRequestOfOther(url) ==
    Request("alternative", IF url = "https://x.com/photo.jpg" THEN "https://y.org/cat.png"
                           ELSE "https://x.com/photo.jpg",
            "curl/7.68.0", "", AlternativeTimeoutMs, AlternativeMaxRedirects, TRUE)

\* tryAlternativeDownload without validateStatus: () => true
AlternativeRequestStrict(url) ==
    Request("alternative", url, "curl/7.68.0", "",
            AlternativeTimeoutMs, AlternativeMaxRedirects, FALSE)

\* tryAlternativeDownload's request
AlternativeRequest(url) ==
    Request("alternative", url, "curl/7.68.0", "",
            AlternativeTimeoutMs, AlternativeMaxRedirects, TRUE)

\* what the network does with a request: no reply in time, a transport
\* error, or an HTTP response
TimedOut == [type |-> "timeout", message |-> "", status |-> 0, data |-> Null]
TransportError(message) == [type |-> "error", message |-> message, status |-> 0, data |-> Null]
HttpResponse(status, data) == [type |-> "response", message |-> "", status |-> status, data |-> data]

Thrown(message) == [kind |-> "throw", message |-> message]

\* what awaiting axios.get(request) gives for a reply: the response, or the
\* error thrown (validateStatus rejects a status of 400 or more unless
\* the request accepts every status)
AxiosGet(request, reply) ==
    CASE reply.type = "timeout" ->
            Thrown("timeout of " \o Digits(request.timeout) \o "ms exceeded")
      [] reply.type = "error" -> Thrown(reply.message)
      [] OTHER ->
            IF request.anyStatus \/ reply.status < ErrorStatusFloor
            THEN [kind |-> "response", status |-> reply.status, data |-> reply.data]
            ELSE Thrown("Request failed with status code " \o Digits(reply.status))

----------------------------------------------------------------------------
(* ImagesService: what its functions return *)

IsBuffer(r) == r.kind = "buffer"
BufferResult(buffer) == [kind |-> "buffer", buffer |-> buffer, error |-> ""]
ErrorResult(message) == [kind |-> "error", buffer |-> Null, error |-> message]
ThrownResult(message) == [kind |-> "throw", buffer |-> Null, error |-> message]

NotFoundMessage(q) == "Nenhuma imagem encontrada para: " \o q
RetriesExhaustedMessage(q) ==
    "Falha ao baixar imagem após " \o Digits(MaxRetries) \o " tentativas para: " \o q
NoStrategyMessage(q) == "Nenhuma estratégia funcionou para baixar a imagem: " \o q
AllStrategiesMessage(q, last) ==
    "Todas as estratégias falharam para: " \o q \o ". Último erro: " \o last

\* the catch of ImagesService.buscarImagem
InternalErrorMessage(q, detail, env) ==
    LET errorMessage == "Erro interno ao buscar imagem para: " \o q
                        \o ". Tente novamente em alguns segundos."
    IN  IF env = "development" THEN errorMessage \o " Detalhes: " \o detail
        ELSE errorMessage

\* buscarImagem without its catch: what the search throws leaves the service
buscarImagemRethrows(r, q, env) == r

\* ImagesService.buscarImagem's try/catch around the whole search
buscarImagemCatch(r, q, env) ==
    IF r.kind = "throw" THEN ErrorResult(InternalErrorMessage(q, r.error, env))
    ELSE r

\* the primary gate with the length compared by >=
PrimaryAcceptsAtFloor(buffer) == buffer.len >= MinImageBytes /\ isValidImageBuffer(buffer)

\* the gate of a primary attempt
PrimaryAccepts(buffer) == buffer.len > MinImageBytes /\ isValidImageBuffer(buffer)

\* the gate of the alternative attempt
AlternativeAccepts(buffer) == buffer.len > MinImageBytes /\ isValidImageBuffer(buffer)

\* tryAlternativeDownload with a catch that drops the message of what was thrown
tryAlternativeDownloadSilent(request, reply, q) ==
    LET got == AxiosGet(request, reply)
    IN  IF got.kind = "throw" THEN ErrorResult(NoStrategyMessage(q))
        ELSE IF AlternativeAccepts(got.data) THEN BufferResult(got.data)
        ELSE ErrorResult(NoStrategyMessage(q))

\* tryAlternativeDownload, once its request has been answered
tryAlternativeDownload(request, reply, q) ==
    LET got == AxiosGet(request, reply)
    IN  IF got.kind = "throw" THEN ErrorResult(AllStrategiesMessage(q, got.message))
        ELSE IF AlternativeAccepts(got.data) THEN BufferResult(got.data)
        ELSE ErrorResult(NoStrategyMessage(q))

\* trySearchEngine, once its request has been answered: the URL, "" for
\* null, or the error thrown.  What cheerio makes of a body that is no HTML
\* text is not fixed by this code: parserThrows chooses
trySearchEngine(engine, request, reply, parserThrows) ==
    LET got == AxiosGet(request, reply)
    IN  IF got.kind = "throw" THEN got
        ELSE IF got.status = 200 /\ got.data.kind # "empty"
             THEN IF got.data.kind = "html"
                  THEN [kind |-> "value", url |-> EngineParser(engine, got.data.html)]
                  ELSE IF parserThrows THEN Thrown("cheerio.load failed")
                       ELSE [kind |-> "value", url |-> ""]
             ELSE [kind |-> "value", url |-> ""]

----------------------------------------------------------------------------
(* WebSearchController: content sniffing and the response *)

\* detectImageContentType taking every RIFF container for WebP
detectImageContentTypeRiffOnly(buffer) ==
    IF buffer.len < 4 THEN "image/jpeg"
    ELSE IF ByteAt(buffer, 0) = 255 /\ ByteAt(buffer, 1) = 216 THEN "image/jpeg"
    ELSE IF ByteAt(buffer, 0) = 137 /\ ByteAt(buffer, 1) = 80 /\
            ByteAt(buffer, 2) = 78 /\ ByteAt(buffer, 3) = 71 THEN "image/png"
    ELSE IF ByteAt(buffer, 0) = 71 /\ ByteAt(buffer, 1) = 73 /\
            ByteAt(buffer, 2) = 70 THEN "image/gif"
    ELSE IF ByteAt(buffer, 0) = 82 /\ ByteAt(buffer, 1) = 73 /\
            ByteAt(buffer, 2) = 70 /\ ByteAt(buffer, 3) = 70 THEN "image/webp"
    ELSE "image/jpeg"

detectImageContentType(buffer) ==
    IF buffer.len < 4 THEN "image/jpeg"
    ELSE IF ByteAt(buffer, 0) = 255 /\ ByteAt(buffer, 1) = 216 THEN "image/jpeg"
    ELSE IF ByteAt(buffer, 0) = 137 /\ ByteAt(buffer, 1) = 80 /\
            ByteAt(buffer, 2) = 78 /\ ByteAt(buffer, 3) = 71 THEN "image/png"
    ELSE IF ByteAt(buffer, 0) = 71 /\ ByteAt(buffer, 1) = 73 /\
            ByteAt(buffer, 2) = 70 THEN "image/gif"
    ELSE IF buffer.len >= 12 /\
            ByteAt(buffer, 0) = 82 /\ ByteAt(buffer, 1) = 73 /\
            ByteAt(buffer, 2) = 70 /\ ByteAt(buffer, 3) = 70 /\
            ByteAt(buffer, 8) = 87 /\ ByteAt(buffer, 9) = 69 /\
            ByteAt(buffer, 10) = 66 /\ ByteAt(buffer, 11) = 80 THEN "image/webp"
    ELSE "image/jpeg"

getFileExtension(contentType) ==
    CASE contentType = "image/png" -> "png"
      [] contentType = "image/gif" -> "gif"
      [] contentType = "image/webp" -> "webp"
      [] OTHER -> "jpg"

\* the error classification of the controller: <<statusCode, errorCode>>
ClassifyError(error) ==
    IF Includes(error, "timeout") \/ Includes(error, "ECONNRESET")
    THEN <<503, "SERVICE_TIMEOUT">>
    ELSE IF Includes(error, "403") \/ Includes(error, "forbidden")
    THEN <<502, "ACCESS_BLOCKED">>
    ELSE IF Includes(error, "500") \/ Includes(error, "502")
    THEN <<502, "UPSTREAM_ERROR">>
    ELSE <<404, "IMAGE_NOT_FOUND">>

HttpReply(status, code, error, contentType, size, body) ==
    [status |-> status, code |-> code, error |-> error,
     contentType |-> contentType, size |-> size, body |-> body]

\* the 400 response of the validation
Rejection(code) == HttpReply(400, code, ValidationMessage(code), "application/json", "", Null)

\* the catch of the controller
ControllerCatch(detail, env) ==
    HttpReply(500, "INTERNAL_ERROR", "Erro interno do servidor", "application/json", "", Null)

\* the controller from the line after the await of imagesService.buscarImagem
Respond(r, q, env) ==
    IF r.kind = "throw" THEN ControllerCatch(r.error, env)
    ELSE IF IsBuffer(r)
    THEN IF EncodeURIComponentThrows(q)
         THEN ControllerCatch("URI malformed", env)
         ELSE HttpReply(200, "", "", detectImageContentType(r.buffer),
                        Digits(r.buffer.len), r.buffer)
    ELSE LET c == ClassifyError(r.error)
         IN  HttpReply(c[1], c[2], r.error, "application/json", "", Null)

----------------------------------------------------------------------------
(* The inputs the model draws from *)

PhotoUrl == "https://x.com/photo.jpg"
CatUrl == "https://y.org/cat.png"
LogoUrl == "https://x.com/logo.png"
IconUrl == "https://cdn.x.com/ICON.gif"
DataUrl == "data:image/png;base64,AAAA"
RelativeUrl == "//x.com/photo.jpg"

\* result pages: a Bing page with one good result; one whose JSON is cut short;
\* one whose murl is no string; a Bing page and a DuckDuckGo page with
\* blacklisted URLs only; a DuckDuckGo page with one good result; an empty page
Pages ==
    { << Element("a", {"iusc"}, MJson(PhotoUrl), "", "", Img(LogoUrl, "")),
         Element("img", {"mimg"}, NoM, CatUrl, "", NoImg) >>,
      << Element("a", {"iusc"}, MBroken(PhotoUrl), "", "", NoImg) >>,
      << Element("div", {"iuscp"}, MNumber(LogoUrl), "", "", Img("", CatUrl)) >>,
      << Element("a", {"iusc"}, MJson(LogoUrl), "", "", Img(IconUrl, "")),
         Element("a", {"iusc"}, MJson(DataUrl), "", "", Img(RelativeUrl, "")) >>,
      << Element("img", {"tile--img__img"}, NoM, IconUrl, CatUrl, NoImg),
         Element("a", {"js-images-link"}, NoM, "", "", Img(LogoUrl, "")) >>,
      << Element("img", {"tile--img__img"}, NoM, "", CatUrl, NoImg) >>,
      << >> }

\* the body axios hands over: HTML text, nothing, or a parsed JSON object
Bodies ==
    {[kind |-> "html", html |-> page] : page \in Pages}
        \cup {[kind |-> "empty", html |-> <<>>], [kind |-> "object", html |-> <<>>]}

SearchReplies ==
    {TimedOut, TransportError("getaddrinfo ENOTFOUND www.bing.com")}
        \cup {HttpResponse(status, body) : status \in {200, 204, 403}, body \in Bodies}

\* the first bytes of a payload
Heads ==
    { <<255, 216, 255, 224, 0, 16, 74, 70, 73, 70, 0, 1>>,       \* JPEG
      <<137, 80, 78, 71, 13, 10, 26, 10, 0, 0, 0, 13>>,          \* PNG
      <<71, 73, 70, 56, 57, 97, 1, 0, 1, 0, 0, 0>>,              \* GIF
      <<82, 73, 70, 70, 36, 0, 0, 0, 87, 69, 66, 80>>,           \* RIFF....WEBP
      <<82, 73, 70, 70, 36, 0, 0, 0, 87, 65, 86, 69>>,           \* RIFF....WAVE
      <<66, 77, 54, 0, 0, 0, 0, 0, 0, 0, 54, 0>>,                \* BMP
      <<60, 104, 116, 109, 108, 62, 60, 98, 111, 100, 121, 62>>, \* <html><body>
      <<255, 217, 255, 224, 0, 16, 74, 70, 73, 70, 0, 1>> }      \* no signature

\* payload lengths: shorter than a signature, at and just over the floor of
\* 512 bytes, and the 400 and 600 bytes of the specification's examples
PayloadLengths == {3, 400, MinImageBytes, MinImageBytes + 1, 600}

Payloads == {Buffer(len, head) : len \in PayloadLengths, head \in Heads}

DownloadReplies ==
    {TimedOut, TransportError("read ECONNRESET"), TransportError("socket hang up")}
        \cup {HttpResponse(status, payload) : status \in {200, 403}, payload \in Payloads}

\* the query parameters of the requests
Queries ==
    {Absent}
        \cup {Str(s) : s \in {"", " ", " \t\n", "cute cat", "timeout",
                              LoneSurrogate, "NSFW", "my Adult cat", "explicit",
                              " x" \o "nSfW" \o "y ",
                              " \t" \o Repeat("a", MaxQueryLength) \o "\n",
                              " " \o Repeat("a", MaxQueryLength + 1) \o " ",
                              Repeat("a", MaxQueryLength - 4) \o "NSFW",
                              Repeat("a", MaxQueryLength - 3) \o "nsfw"}}
        \cup {Str(Repeat("a", n)) : n \in MaxQueryLength..MaxPad}

----------------------------------------------------------------------------
(* The search as the event loop runs it *)

Event(ev, engine, n, ms, url) ==
    [ev |-> ev, engine |-> engine, attempt |-> n, ms |-> ms, url |-> url, outcome |-> ""]

\* the awaited request ended: "threw", or for a search "null" or "url", or
\* for a download "rejected" or "accepted"
Reply(outcome) ==
    [ev |-> "reply", engine |-> "", attempt |-> 0, ms |-> 0, url |-> "", outcome |-> outcome]

\* the catch of downloadImageWithRetry taking the alternative one attempt early
AlternativeDueEarly(n) == n >= MaxRetries - 1

\* the catch of downloadImageWithRetry giving up the primary attempts at once
\* for a failure whose text classifies as a timeout
AlternativeDueByKind(n) ==
    n = MaxRetries \/ ClassifyError(NotFoundMessage(cleanQuery))[2] = "SERVICE_TIMEOUT"

\* if (attempt === maxRetries) of downloadImageWithRetry's catch
AlternativeDue(n) == n = MaxRetries

\* why trySearchEngine threw
ThrowCause(reply) ==
    CASE reply.type = "timeout" -> "timeout"
      [] reply.type = "error" -> "network"
      [] reply.type = "response" /\ reply.status >= ErrorStatusFloor -> "status"
      [] OTHER -> "parser"

\* whether a page has any URL in an attribute the parsers read
OffersUrls(body) ==
    body.kind = "html" /\
    \E i \in 1..Len(body.html) :
        LET el == body.html[i]
        IN  el.m.raw # "" \/ el.src # "" \/ el.dataSrc # "" \/
            el.img.src # "" \/ el.img.dataSrc # ""

\* the loop of buscarImagemUrl without its catch
EngineCatchRethrows(t) == t

\* the catch of buscarImagemUrl's loop: log and continue, as if the engine gave null
EngineCatch(t) == IF t.kind = "throw" THEN [kind |-> "value", url |-> ""] ELSE t

\* the loop of buscarImagemUrl never returning early
EngineYieldsNever(result) == FALSE

\* if (result) of buscarImagemUrl
EngineYields(result) == result # ""

\* buscarImagem without its test of the URL
HasUrlAlways(url) == TRUE

\* if (!imagemUrl) of buscarImagem, negated
HasUrl(url) == url # ""

\* the delay computed from the attempt that has just failed
DelayMsOfFailed(n) == (n - 1) * DelayStepMs

\* await this.delay(attempt * 1000), for the attempt about to be made
DelayMs(n) == n * DelayStepMs

\* buscarImagem resolves to r (or throws it) and the controller responds
Finish(r, q) ==
    LET svc == buscarImagemCatch(r, q, nodeEnv)
    IN  /\ resultado' = svc
        /\ response' = Respond(svc, q, nodeEnv)
        /\ inflight' = Null
        /\ pc' = "done"

\* trySearchEngine(searchEngines[i]) up to its await
AskEngine(i, q, r, sofar) ==
    /\ engineIdx' = i
    /\ inflight' = SearchRequest(i, q, r)
    /\ trace' = Append(sofar, Event("search", searchEngines[i].name, 0, 0, ""))
    /\ pc' = "search"
    /\ UNCHANGED <<resultado, response>>

\* buscarImagem from the line after the await of buscarImagemUrl, which gave url
AfterUrl(url, q, r, sofar) ==
    /\ imagemUrl' = url
    /\ IF ~HasUrl(url)
       THEN /\ Finish(ErrorResult(NotFoundMessage(q)), q)
            /\ trace' = sofar
            /\ UNCHANGED attempt
       ELSE /\ attempt' = 1
            /\ inflight' = DownloadRequest(url, r)
            /\ trace' = Append(sofar, Event("download", "", 1, 0, url))
            /\ pc' = "download"
            /\ UNCHANGED <<resultado, response>>

\* the HTTP request arrives: the controller validates, and a valid query
\* runs the search up to its first await
Receive(q, r) ==
    /\ pc = "idle"
    /\ query' = q
    /\ LET code  == ValidateQuery(q)
           clean == cleanQueryOf(q)
       IN  IF code # "ok"
           THEN /\ cleanQuery' = IF code = "MISSING_QUERY" THEN "" ELSE clean
                /\ response' = Rejection(code)
                /\ pc' = "done"
                /\ UNCHANGED <<engineIdx, results, imagemUrl, attempt, inflight,
                               trace, resultado>>
           ELSE /\ cleanQuery' = clean
                /\ IF EncodeURIComponentThrows(clean)
                   THEN /\ Finish(ThrownResult("URI malformed"), clean)
                        /\ UNCHANGED <<engineIdx, results, imagemUrl, attempt, trace>>
                   ELSE /\ AskEngine(1, clean, r, trace)
                        /\ UNCHANGED <<results, imagemUrl, attempt>>
    /\ UNCHANGED nodeEnv

\* what the trace records of a search that gave t
SearchOutcome(t) ==
    IF t.kind = "throw" THEN "threw" ELSE IF t.url = "" THEN "null" ELSE "url"

\* what results records of engine, whose request was answered by reply and
\* whose trySearchEngine gave t
ResultEntry(engine, reply, t) ==
    [engine |-> engine.name,
     outcome |-> SearchOutcome(t),
     cause |-> IF t.kind = "throw" THEN ThrowCause(reply) ELSE "",
     offered |-> reply.type = "response" /\ OffersUrls(reply.data),
     url |-> IF t.kind = "throw" THEN "" ELSE t.url]

\* the loop of buscarImagemUrl keeping a backend's URL only when the identity
\* drawn next is the first of the pool
AfterEngineByIdentity(c, q, r, sofar) ==
    IF c.kind = "throw"
    THEN /\ Finish(ThrownResult(c.message), q)
         /\ trace' = sofar
         /\ UNCHANGED <<engineIdx, imagemUrl, attempt>>
    ELSE IF EngineYields(c.url) /\ r = 1
    THEN /\ AfterUrl(c.url, q, r, sofar)
         /\ UNCHANGED engineIdx
    ELSE IF engineIdx < Len(searchEngines)
    THEN /\ AskEngine(engineIdx + 1, q, r, sofar)
         /\ UNCHANGED <<imagemUrl, attempt>>
    ELSE /\ AfterUrl("", q, r, sofar)
         /\ UNCHANGED engineIdx

\* the loop of buscarImagemUrl from the line after the await of
\* trySearchEngine, with c what the try/catch of the loop body made of it
AfterEngine(c, q, r, sofar) ==
    IF c.kind = "throw"
    THEN /\ Finish(ThrownResult(c.message), q)
         /\ trace' = sofar
         /\ UNCHANGED <<engineIdx, imagemUrl, attempt>>
    ELSE IF EngineYields(c.url)
    THEN /\ AfterUrl(c.url, q, r, sofar)
         /\ UNCHANGED engineIdx
    ELSE IF engineIdx < Len(searchEngines)
    THEN /\ AskEngine(engineIdx + 1, q, r, sofar)
         /\ UNCHANGED <<imagemUrl, attempt>>
    ELSE /\ AfterUrl("", q, r, sofar)
         /\ UNCHANGED engineIdx

\* trySearchEngine gave t for the request reply answered
EngineAnswered(t, reply, r) ==
    /\ results' = Append(results, ResultEntry(searchEngines[engineIdx], reply, t))
    /\ AfterEngine(EngineCatch(t), cleanQuery, r, Append(trace, Reply(SearchOutcome(t))))

\* the awaited search page request is answered
SearchResolve(reply, parserThrows, r) ==
    /\ pc = "search"
    /\ EngineAnswered(trySearchEngine(searchEngines[engineIdx], inflight, reply, parserThrows),
                      reply, r)
    /\ UNCHANGED <<nodeEnv, query, cleanQuery>>

\* downloadImageWithRetry issuing the next attempt without awaiting this.delay
NextIterationNoSleep(sofar) ==
    /\ attempt' = attempt + 1
    /\ IF attempt + 1 <= MaxRetries
       THEN /\ trace' = Append(sofar, Event("download", "", attempt + 1, 0, imagemUrl))
            /\ inflight' = DownloadRequest(imagemUrl, 1)
            /\ pc' = "download"
            /\ UNCHANGED <<resultado, response>>
       ELSE /\ Finish(ErrorResult(RetriesExhaustedMessage(cleanQuery)),
                      cleanQuery)
            /\ trace' = sofar

\* downloadImageWithRetry looping while attempt <= maxRetries + 1
NextIterationOneMore(sofar) ==
    /\ attempt' = attempt + 1
    /\ IF attempt + 1 <= MaxRetries + 1
       THEN /\ trace' = Append(sofar, Event("delay", "", attempt + 1, DelayMs(attempt + 1), ""))
            /\ inflight' = Null
            /\ pc' = "delay"
            /\ UNCHANGED <<resultado, response>>
       ELSE /\ Finish(ErrorResult(RetriesExhaustedMessage(cleanQuery)),
                      cleanQuery)
            /\ trace' = sofar

\* downloadImageWithRetry goes to the next iteration of its loop
NextIteration(sofar) ==
    /\ attempt' = attempt + 1
    /\ IF attempt + 1 <= MaxRetries
       THEN /\ trace' = Append(sofar, Event("delay", "", attempt + 1, DelayMs(attempt + 1), ""))
            /\ inflight' = Null
            /\ pc' = "delay"
            /\ UNCHANGED <<resultado, response>>
       ELSE /\ Finish(ErrorResult(RetriesExhaustedMessage(cleanQuery)),
                      cleanQuery)
            /\ trace' = sofar

\* the awaited primary download request is answered
DownloadResolve(reply) ==
    /\ pc = "download"
    /\ LET got == AxiosGet(inflight, reply)
       IN  IF got.kind = "response"
           THEN IF PrimaryAccepts(got.data)
                THEN /\ Finish(BufferResult(got.data), cleanQuery)
                     /\ trace' = Append(trace, Reply("accepted"))
                     /\ UNCHANGED attempt
                ELSE NextIteration(Append(trace, Reply("rejected")))
           ELSE IF AlternativeDue(attempt)
                THEN /\ inflight' = AlternativeRequest(imagemUrl)
                     /\ trace' = Append(Append(trace, Reply("threw")),
                                        Event("alternative", "", 0, 0, imagemUrl))
                     /\ pc' = "alternative"
                     /\ UNCHANGED <<attempt, resultado, response>>
                ELSE NextIteration(Append(trace, Reply("threw")))
    /\ UNCHANGED <<nodeEnv, query, cleanQuery, engineIdx, results, imagemUrl>>

\* the timer of this.delay fires: the attempt's request goes out
DelayElapsed(r) ==
    /\ pc = "delay"
    /\ inflight' = DownloadRequest(imagemUrl, r)
    /\ trace' = Append(trace, Event("download", "", attempt, 0, imagemUrl))
    /\ pc' = "download"
    /\ UNCHANGED <<nodeEnv, query, cleanQuery, engineIdx, results, imagemUrl, attempt,
                   resultado, response>>

\* the awaited alternative download request is answered
AlternativeResolve(reply) ==
    /\ pc = "alternative"
    /\ LET r == tryAlternativeDownload(inflight, reply, cleanQuery)
       IN  /\ Finish(r, cleanQuery)
           /\ trace' = Append(trace, Reply(IF IsBuffer(r) THEN "accepted"
                                           ELSE IF reply.type = "response" THEN "rejected"
                                           ELSE "threw"))
    /\ UNCHANGED <<nodeEnv, query, cleanQuery, engineIdx, results, imagemUrl, attempt>>

Init ==
    /\ pc = "idle"
    /\ nodeEnv \in {"development", "production"}
    /\ query = Absent
    /\ cleanQuery = ""
    /\ engineIdx = 0
    /\ results = <<>>
    /\ imagemUrl = ""
    /\ attempt = 0
    /\ inflight = Null
    /\ trace = <<>>
    /\ resultado = Null
    /\ response = Null
    /\ log = <<>>
    /\ peer = Null
    /\ pool = USER_AGENTS

\* one search on its own: no second search, and the replies are not logged
Alone == UNCHANGED <<log, peer, pool>>

Next ==
    \/ \E q \in Queries, r \in IdentityChoices : Receive(q, r) /\ Alone
    \/ \E reply \in SearchReplies, parserThrows \in BOOLEAN, r \in IdentityChoices :
          SearchResolve(reply, parserThrows, r) /\ Alone
    \/ \E reply \in DownloadReplies : DownloadResolve(reply) /\ Alone
    \/ \E r \in IdentityChoices : DelayElapsed(r) /\ Alone
    \/ \E reply \in DownloadReplies : AlternativeResolve(reply) /\ Alone

Spec == Init /\ [][Next]_vars

\* what is awaited settles at the latest by its own clock: every axios.get
\* carries a timeout, after which it rejects, and the timer of this.delay
\* fires
Settles ==
    \/ \E r \in IdentityChoices : SearchResolve(TimedOut, FALSE, r) /\ Alone
    \/ DownloadResolve(TimedOut) /\ Alone
    \/ \E r \in IdentityChoices : DelayElapsed(r) /\ Alone
    \/ AlternativeResolve(TimedOut) /\ Alone

\* the inputs of the searches followed to their end: a query that is
\* rejected, one that makes encodeURIComponent throw and two that are
\* searched; backends that time out, answer with a candidate or with none;
\* downloads that time out, are refused, fail the gate or pass it
LiveQueries == {Absent, Str(LoneSurrogate), Str("cute cat"), Str("timeout")}

LiveSearchReplies ==
    { TimedOut,
      HttpResponse(200, [kind |-> "html", html |-> <<>>]),
      HttpResponse(200, [kind |-> "html",
                         html |-> << Element("a", {"iusc"}, MJson(PhotoUrl), "", "", NoImg),
                                     Element("img", {"tile--img__img"}, NoM, CatUrl, "", NoImg) >>]) }

LiveDownloadReplies ==
    { TimedOut,
      HttpResponse(403, Buffer(600, <<255, 216, 255, 224, 0, 16, 74, 70, 73, 70, 0, 1>>)),
      HttpResponse(200, Buffer(MinImageBytes, <<255, 216, 255, 224, 0, 16, 74, 70, 73, 70, 0, 1>>)),
      HttpResponse(200, Buffer(600, <<255, 216, 255, 224, 0, 16, 74, 70, 73, 70, 0, 1>>)) }

NextLive ==
    \/ \E q \in LiveQueries, r \in IdentityChoices : Receive(q, r) /\ Alone
    \/ \E reply \in LiveSearchReplies, r \in IdentityChoices :
          SearchResolve(reply, FALSE, r) /\ Alone
    \/ \E reply \in LiveDownloadReplies : DownloadResolve(reply) /\ Alone
    \/ \E r \in IdentityChoices : DelayElapsed(r) /\ Alone
    \/ \E reply \in LiveDownloadReplies : AlternativeResolve(reply) /\ Alone

\* one search in which nothing awaited stays pending for ever: a request is
\* answered by some reply of NextLive or, failing that, by its timeout; the
\* arrival of a query is not forced
SpecLive == Init /\ [][NextLive]_vars /\ WF_vars(Settles)

----------------------------------------------------------------------------
(* The pure functions on their own: detectImageContentType, the error      *)
(* classification and isValidImageUrl applied to inputs drawn from sets,   *)
(* beyond the inputs one search hands them.                                *)

\* lengths around the 4 bytes and the 12 bytes the sniffer asks for
SniffedLengths == {0, 2, 3, 4, 11, HeadBytes, 600}

SniffedHeads ==
    Heads \cup { <<0, 0, 0, 0, 0, 0, 0, 0, 0, 0, 0, 0>>,
                 <<82, 73, 70, 70, 36, 0, 0, 0, 87, 69, 66, 0>>,   \* RIFF....WEB
                 <<71, 73, 70, 70, 36, 0, 0, 0, 87, 69, 66, 80>> } \* GIFF....WEBP

SniffedBuffers == {Buffer(len, head) : len \in SniffedLengths, head \in SniffedHeads}

\* what the alternative request can throw
AlternativeErrors ==
    {"timeout of 15000ms exceeded", "read ECONNRESET", "socket hang up",
     "connect ETIMEDOUT 10.0.0.1:443", "getaddrinfo ENOTFOUND x.com"}

\* queries whose text reaches the error message
EchoedQueries ==
    {"cute cat", "timeout", "Timeout", "TIMEOUT", "econnreset", "ECONNRESET",
     "forbidden", "Forbidden", "FORBIDDEN", "403", "500", "502",
     "timeout 403", "500 timeout", "ECONNRESET 500", "403 500", "502 forbidden",
     "forbidden 500", "500 502", "error 404"}

\* the messages ImagesService.buscarImagem returns
FailureTexts ==
    {NotFoundMessage(q) : q \in EchoedQueries}
        \cup {RetriesExhaustedMessage(q) : q \in {"cute cat", "403"}}
        \cup {NoStrategyMessage(q) : q \in {"cute cat", "Forbidden"}}
        \cup {AllStrategiesMessage(q, last) : q \in {"cute cat", "502"}, last \in AlternativeErrors}
        \cup {InternalErrorMessage("cute cat", "URI malformed", env) :
                 env \in {"development", "production"}}

SchemeOnlyUrl == "httpx://x.com/photo.jpg"

CandidateUrls ==
    {PhotoUrl, CatUrl, LogoUrl, IconUrl, DataUrl, RelativeUrl, SchemeOnlyUrl,
     "", "x.com/photo.jpg", "ftp://x.com/photo.jpg", "http://", "https://x y.com/p.jpg",
     "http://y.org/a/b.webp?w=1#top", "https://x.com/Avatar.PNG", "https://x.com/a.SVG",
     "https://x.com/1X1.gif", "https://x.com/blank.gif", "https://x.com/BLANK.gif",
     "https://x.com/data:image"}

\* detectImageContentType(buffer) as the controller uses it on a buffer
Sniff(buffer) ==
    /\ pc = "idle"
    /\ resultado' = BufferResult(buffer)
    /\ response' = Respond(BufferResult(buffer), cleanQuery, nodeEnv)
    /\ pc' = "sniffed"
    /\ UNCHANGED <<nodeEnv, query, cleanQuery, engineIdx, results, imagemUrl, attempt,
                   inflight, trace>>

\* the controller's classification of an error the service returned
Classify(text) ==
    /\ pc = "idle"
    /\ resultado' = ErrorResult(text)
    /\ response' = Respond(ErrorResult(text), cleanQuery, nodeEnv)
    /\ pc' = "classified"
    /\ UNCHANGED <<nodeEnv, query, cleanQuery, engineIdx, results, imagemUrl, attempt,
                   inflight, trace>>

\* a parser's test of a URL it read: inflight is the URL read, imagemUrl the
\* URL returned ("" when the parser goes on)
TestUrl(url) ==
    /\ pc = "idle"
    /\ inflight' = [kind |-> "candidate", url |-> url]
    /\ imagemUrl' = ReturnIfValid(url)
    /\ pc' = "tested"
    /\ UNCHANGED <<nodeEnv, query, cleanQuery, engineIdx, results, attempt, trace,
                   resultado, response>>

\* result pages that tell the orders of the parsers apart: a sixth (fourth)
\* match past the cap; a match of a later selector standing first in the
\* document; a parsed murl that is refused beside a nested image; an m whose
\* JSON parses but whose murl is no string, or which is the JSON null;
\* elements whose first image attribute is refused and whose next is not
RefusedResult == Element("a", {"iusc"}, MJson(LogoUrl), "", "", NoImg)

RefusedTile == Element("img", {"tile--img__img"}, NoM, IconUrl, "", NoImg)

MNull == [raw |-> "null", parsed |-> "null", murlIsString |-> TRUE, murl |-> ""]

OrderPages ==
    { << RefusedResult, RefusedResult, RefusedResult, RefusedResult, RefusedResult,
         Element("a", {"iusc"}, MJson(PhotoUrl), "", "", NoImg) >>,
      << RefusedResult, RefusedResult, RefusedResult, RefusedResult,
         Element("a", {"iusc"}, MJson(PhotoUrl), "", "", NoImg) >>,
      << RefusedTile, RefusedTile, RefusedTile,
         Element("img", {"tile--img__img"}, NoM, PhotoUrl, "", NoImg) >>,
      << RefusedTile, RefusedTile,
         Element("img", {"tile--img__img"}, NoM, PhotoUrl, "", NoImg) >>,
      << Element("div", {"mimg"}, NoM, "", "", Img(CatUrl, "")),
         Element("a", {"iusc"}, MJson(PhotoUrl), "", "", NoImg) >>,
      << Element("a", {"js-images-link"}, NoM, "", "", Img(CatUrl, "")),
         Element("img", {"tile--img__img"}, NoM, PhotoUrl, "", NoImg) >>,
      << Element("a", {"iusc"}, MJson(LogoUrl), "", "", Img(PhotoUrl, "")) >>,
      << Element("a", {"iusc"}, MJson(PhotoUrl), "", "", Img(CatUrl, "")) >>,
      << Element("a", {"iusc"}, MNumber(PhotoUrl), "", "", NoImg) >>,
      << Element("a", {"iusc"}, MNull, "", "", Img(CatUrl, "")) >>,
      << Element("a", {"iusc"}, NoM, "", "", Img(DataUrl, PhotoUrl)) >>,
      << Element("a", {"iusc"}, NoM, "", "", Img("", PhotoUrl)) >>,
      << Element("img", {"tile--img__img"}, NoM, DataUrl, PhotoUrl, NoImg) >>,
      << Element("img", {"tile--img__img"}, NoM, "", LogoUrl, Img(PhotoUrl, "")) >>,
      << Element("a", {"js-images-link"}, NoM, "", "", Img("", PhotoUrl)) >>,
      << Element("a", {"js-images-link"}, NoM, "", "", Img(CatUrl, PhotoUrl)) >> }

\* what a backend answers: 200, a success status other than 200, an error status
EngineReplies ==
    {TimedOut}
        \cup {HttpResponse(status, [kind |-> "html", html |-> page]) :
                 status \in {200, 203, 404}, page \in Pages \cup OrderPages}
        \cup {HttpResponse(status, [kind |-> "empty", html |-> <<>>]) : status \in {200, 203}}

\* trySearchEngine(searchEngines[i]) answered by reply: inflight is what was
\* asked and answered, results what buscarImagemUrl's loop made of it
AnswerEngine(i, reply) ==
    /\ pc = "idle"
    /\ engineIdx' = i
    /\ inflight' = [kind |-> "answered", engine |-> searchEngines[i].name, reply |-> reply]
    /\ results' = << ResultEntry(searchEngines[i], reply,
                                 trySearchEngine(searchEngines[i],
                                                 SearchRequest(i, "cute cat", 1), reply, FALSE)) >>
    /\ pc' = "answered"
    /\ UNCHANGED <<nodeEnv, query, cleanQuery, imagemUrl, attempt, trace, resultado, response>>

NextFunctions ==
    \/ \E buffer \in SniffedBuffers : Sniff(buffer) /\ Alone
    \/ \E text \in FailureTexts : Classify(text) /\ Alone
    \/ \E url \in CandidateUrls : TestUrl(url) /\ Alone
    \/ \E i \in 1..Len(searchEngines), reply \in EngineReplies : AnswerEngine(i, reply) /\ Alone

SpecFunctions == Init /\ [][NextFunctions]_vars

----------------------------------------------------------------------------
(* Two searches on the one ImagesService instance.  Node runs one           *)
(* continuation at a time: the variables above are the locals of the        *)
(* search whose continuation runs next, peer holds the locals of the other  *)
(* search, suspended at its await, and Switch lets the event loop turn to   *)
(* the other search.  Each search logs the replies it consumes.             *)

\* the locals of the search that is running: parameters and variables of
\* the async functions of its call chain
Locals ==
    [pc |-> pc, query |-> query, cleanQuery |-> cleanQuery, engineIdx |-> engineIdx,
     results |-> results, imagemUrl |-> imagemUrl, attempt |-> attempt,
     inflight |-> inflight, trace |-> trace, resultado |-> resultado,
     response |-> response, log |-> log]

IdleLocals ==
    [pc |-> "idle", query |-> Absent, cleanQuery |-> "", engineIdx |-> 0,
     results |-> <<>>, imagemUrl |-> "", attempt |-> 0,
     inflight |-> Null, trace |-> <<>>, resultado |-> Null,
     response |-> Null, log |-> <<>>]

\* the loop counter kept in a field of the service instead of a local: the
\* search resumed finds the count the other search left
ResumeSharedCounter(p) == [p EXCEPT !.attempt = attempt]

\* what a continuation finds in its locals when it is resumed: what it left
Resume(p) == p

\* the event loop turns to the other search
Switch ==
    /\ peer # Null
    /\ peer' = Locals
    /\ LET p == Resume(peer)
       IN  /\ pc' = p.pc
           /\ query' = p.query
           /\ cleanQuery' = p.cleanQuery
           /\ engineIdx' = p.engineIdx
           /\ results' = p.results
           /\ imagemUrl' = p.imagemUrl
           /\ attempt' = p.attempt
           /\ inflight' = p.inflight
           /\ trace' = p.trace
           /\ resultado' = p.resultado
           /\ response' = p.response
           /\ log' = p.log
    /\ UNCHANGED <<nodeEnv, pool>>

\* the running search consumes reply; the other search and the pool are not touched
Logged(reply) == log' = Append(log, reply) /\ UNCHANGED <<peer, pool>>

PairQueries == {Str("cute cat"), Str("timeout")}

PairSearchReplies ==
    { HttpResponse(200, [kind |-> "html",
                         html |-> << Element("a", {"iusc"}, MJson(PhotoUrl), "", "", NoImg) >>]),
      HttpResponse(200, [kind |-> "html",
                         html |-> << Element("img", {"tile--img__img"}, NoM, CatUrl, "", NoImg) >>]) }

PairDownloadReplies ==
    { TransportError("socket hang up"),
      HttpResponse(403, Buffer(600, <<255, 216, 255, 224, 0, 16, 74, 70, 73, 70, 0, 1>>)),
      HttpResponse(404, Buffer(600, <<60, 104, 116, 109, 108, 62, 60, 98, 111, 100, 121, 62>>)) }

InitPair ==
    /\ pc = "idle"
    /\ nodeEnv = "production"
    /\ query = Absent
    /\ cleanQuery = ""
    /\ engineIdx = 0
    /\ results = <<>>
    /\ imagemUrl = ""
    /\ attempt = 0
    /\ inflight = Null
    /\ trace = <<>>
    /\ resultado = Null
    /\ response = Null
    /\ log = <<>>
    /\ peer = IdleLocals
    /\ pool = USER_AGENTS

NextPair ==
    \/ \E q \in PairQueries, r \in IdentityChoices : Receive(q, r) /\ Alone
    \/ \E reply \in PairSearchReplies, r \in IdentityChoices :
          SearchResolve(reply, FALSE, r) /\ Logged(reply)
    \/ \E reply \in PairDownloadReplies : DownloadResolve(reply) /\ Logged(reply)
    \/ \E r \in IdentityChoices : DelayElapsed(r) /\ Alone
    \/ \E reply \in PairDownloadReplies : AlternativeResolve(reply) /\ Logged(reply)
    \/ Switch

SpecPair == InitPair /\ [][NextPair]_vars

----------------------------------------------------------------------------
(* Properties *)

IsPrefix(a, b) == Len(a) <= Len(b) /\ SubSeq(b, 1, Len(a)) = a

Kinds(seq) == [i \in 1..Len(seq) |-> seq[i].ev]

EventsOf(ev) == SelectSeq(trace, LAMBDA e : e.ev = ev)

\* the trace from the first download request on
DownloadPhase ==
    LET at == {i \in 1..Len(trace) : trace[i].ev = "download"}
    IN  IF at = {} THEN <<>>
        ELSE SubSeq(trace, CHOOSE i \in at : \A j \in at : i <= j, Len(trace))

\* the engines asked, in order
SearchedEngines ==
    LET asked == EventsOf("search") IN [i \in 1..Len(asked) |-> asked[i].engine]

\* the delays started, in order
DelaysMs ==
    LET delays == EventsOf("delay") IN [i \in 1..Len(delays) |-> delays[i].ms]

AllThrew(seq) ==
    \A i \in 1..Len(seq) : seq[i].ev = "reply" => seq[i].outcome = "threw"

Searched == resultado # Null \/ inflight # Null \/ trace # <<>>

FailedDownload == pc = "done" /\ DownloadPhase # <<>> /\ resultado.kind = "error"

IsNotFound(r) == r.kind = "error" /\ r.error = "Nenhuma imagem encontrada para: " \o cleanQuery

LadderOfAlwaysFailing ==
    << "download", "reply", "delay", "download", "reply", "delay",
       "download", "reply", "alternative", "reply" >>

\* C1: when every download request of a search ends in a thrown transport
\* error, the requests are three primary attempts numbered 1, 2, 3 and then
\* one alternative attempt, in that order; the failure is returned only after
\* the alternative attempt has been answered, and nothing follows it.
C1_ThreePrimaryThenOneAlternative ==
    LET d == DownloadPhase
        primary == SelectSeq(d, LAMBDA e : e.ev = "download")
    IN  (d # <<>> /\ AllThrew(d)) =>
            /\ IsPrefix(Kinds(d), LadderOfAlwaysFailing)
            /\ \A i \in 1..Len(primary) : primary[i].attempt = i
            /\ (resultado # Null \/ pc = "done") =>
                   /\ Kinds(d) = LadderOfAlwaysFailing
                   /\ resultado.kind = "error"
                   /\ pc = "done" /\ inflight = Null

C1_Witness ==
    /\ pc = "done"
    /\ AllThrew(DownloadPhase)
    /\ Kinds(DownloadPhase) = LadderOfAlwaysFailing
    /\ resultado.kind = "error"

\* C2 as stated: the delay before attempt 2 is 1000 ms and the delay before
\* attempt 3 is 2000 ms (the number of the attempt that has just failed times
\* 1000), there are two delays when three primary attempts have failed, and
\* none between the third primary attempt and the alternative attempt.
C2_DelayOfFailedAttempt ==
    /\ IsPrefix(DelaysMs, <<1000, 2000>>)
    /\ \A i \in 1..Len(trace) :
          trace[i].ev = "delay" =>
              /\ i > 2 /\ trace[i - 1].ev = "reply" /\ trace[i - 2].ev = "download"
              /\ trace[i].ms = trace[i - 2].attempt * 1000
    /\ Len(EventsOf("download")) = 3 => Len(DelaysMs) = 2
    /\ \A i \in 1..Len(trace) :
          trace[i].ev = "alternative" =>
              i > 2 /\ trace[i - 1].ev = "reply" /\ trace[i - 2].ev = "download"

\* C2 amended: the delay before attempt 2 is 2000 ms and the delay before
\* attempt 3 is 3000 ms (the number of the attempt about to be made times
\* 1000); each delay follows the reply to the failed attempt before it; there
\* are two delays when three primary attempts have been made, and none between
\* the third primary attempt and the alternative attempt.
C2_DelayOfNextAttempt ==
    /\ IsPrefix(DelaysMs, <<2000, 3000>>)
    /\ \A i \in 1..Len(trace) :
          trace[i].ev = "delay" =>
              /\ i > 2 /\ trace[i - 1].ev = "reply" /\ trace[i - 2].ev = "download"
              /\ trace[i - 1].outcome \in {"threw", "rejected"}
              /\ trace[i].ms = (trace[i - 2].attempt + 1) * 1000
    /\ Len(EventsOf("download")) = 3 => Len(DelaysMs) = 2
    /\ \A i \in 1..Len(trace) :
          trace[i].ev = "alternative" =>
              /\ i > 2 /\ trace[i - 1].ev = "reply" /\ trace[i - 2].ev = "download"
              /\ trace[i - 2].attempt = 3

C2_Witness ==
    /\ DelaysMs = <<2000, 3000>>
    /\ Len(EventsOf("alternative")) = 1
    /\ pc = "done"

\* C3: a search that tried to download and returned a failure has made
\* exactly one alternative attempt, however the third primary attempt failed.
C3_AlternativeBeforeFailure ==
    FailedDownload => Len(EventsOf("alternative")) = 1

LeadingSignatures ==
    { <<255, 216>>, <<137, 80, 78, 71>>, <<71, 73, 70>>, <<82, 73, 70, 70>>, <<66, 77>> }

BeginsWithSignature(buffer) ==
    \E sig \in LeadingSignatures :
        Len(buffer.head) >= Len(sig) /\ SubSeq(buffer.head, 1, Len(sig)) = sig

C5_FirstBackendWins ==
    /\ IsPrefix(SearchedEngines, <<"Bing", "DuckDuckGo">>)
    /\ (Len(results) >= 1 /\ results[1].outcome = "url") =>
           /\ results[1].engine = "Bing"
           /\ SearchedEngines = <<"Bing">>
           /\ imagemUrl = results[1].url
           /\ DownloadPhase # <<>>
           /\ \A i \in 1..Len(trace) :
                 trace[i].ev \in {"download", "alternative"} =>
                     trace[i].url = results[1].url

C5_Witness ==
    /\ pc = "done"
    /\ results = << [engine |-> "Bing", outcome |-> "url", cause |-> "",
                     offered |-> TRUE, url |-> PhotoUrl] >>
    /\ resultado.kind = "buffer"

\* C6: when both engines have answered and neither gave a URL, the search
\* returns the not-found error and has made no download request.
C6_NoCandidateNoDownload ==
    (pc = "done" /\ Len(results) = 2 /\ \A i \in 1..2 : results[i].outcome = "null") =>
        /\ IsNotFound(resultado)
        /\ EventsOf("download") = <<>>
        /\ EventsOf("alternative") = <<>>

C6_Witness ==
    /\ pc = "done"
    /\ Len(results) = 2
    /\ \A i \in 1..2 : results[i].outcome = "null" /\ results[i].offered
    /\ IsNotFound(resultado)

\* C7: when trySearchEngine throws for Bing, DuckDuckGo is asked next; when
\* it throws for DuckDuckGo the search returns the not-found error; the
\* search never returns the error of a caught exception.
C7_BackendFailureAbsorbed ==
    \A i \in 1..Len(results) :
        results[i].outcome = "threw" =>
            /\ i = 1 => Len(SearchedEngines) = 2
            /\ i = 2 => pc = "done" /\ IsNotFound(resultado) /\ DownloadPhase = <<>>
            /\ resultado # Null =>
                   resultado.kind # "throw" /\ ~StartsWith(resultado.error, "Erro interno")

C7_Witness ==
    /\ pc = "done"
    /\ Len(results) = 2
    /\ results[1].cause = "status"
    /\ results[2].cause = "parser"
    /\ IsNotFound(resultado)

\* C8: a search that was started ends with a value, never with an exception
\* leaving the service: the value is either a buffer or an error message,
\* exactly one of the two, and it is there once the search has ended.
C8_SearchResolvesToOneValue ==
    /\ resultado # Null =>
           /\ pc = "done"
           /\ resultado.kind \in {"buffer", "error"}
           /\ resultado.kind = "buffer" <=> resultado.buffer # Null
           /\ resultado.kind = "error" <=> resultado.error # ""
    /\ (pc = "done" /\ response.status # 400) => resultado # Null

C8_Witness ==
    /\ pc = "done"
    /\ cleanQuery = LoneSurrogate
    /\ resultado # Null /\ resultado.kind = "error"

\* whether the trimmed query has 1 to 100 characters and no disallowed term
QueryIsValid ==
    /\ query.kind = "string"
    /\ LET t == Trim(query.text)
           lower == ToLowerCase(t)
       IN  /\ Len(t) >= 1 /\ Len(t) <= 100
           /\ \A term \in {"explicit", "nsfw", "adult"} : ~Includes(lower, term)

\* C9: a request, a reply, a delay or a result of the search exists only for
\* a query that is valid.
C9_InvalidQueryNeverSearched ==
    Searched => QueryIsValid

C9_Witness ==
    /\ trace # <<>>
    /\ query.text # Trim(query.text)
    /\ Len(Trim(query.text)) = 100

\* what the validation is to answer for the query of the request
ExpectedValidation ==
    IF query.kind = "absent" THEN "MISSING_QUERY"
    ELSE LET t == Trim(query.text)
             lower == ToLowerCase(t)
         IN  IF Len(t) = 0 THEN "MISSING_QUERY"
             ELSE IF Len(t) > 100 THEN "QUERY_TOO_LONG"
             ELSE IF \E term \in {"explicit", "nsfw", "adult"} : Includes(lower, term)
                  THEN "FORBIDDEN_QUERY"
             ELSE "accepted"

\* what it answered: the code of its 400 response, or the search being run
ObservedValidation ==
    IF response # Null /\ response.status = 400 THEN response.code
    ELSE IF Searched THEN "accepted"
    ELSE "none"

\* C10: the validation answers MISSING_QUERY for an absent, empty or blank
\* query, else QUERY_TOO_LONG for more than 100 characters after trimming,
\* else FORBIDDEN_QUERY for a disallowed term in any letter case, else it
\* lets the search run.
C10_ValidationFunction ==
    pc # "idle" => ObservedValidation = ExpectedValidation

C10_Witness ==
    /\ response # Null /\ response.code = "QUERY_TOO_LONG"
    /\ Len(Trim(query.text)) = 101
    /\ Includes(ToLowerCase(query.text), "nsfw")

\* both engines answered and neither gave a URL
NoBackendGaveCandidate ==
    Len(results) = 2 /\ \A i \in 1..2 : results[i].outcome = "null"

\* C11: a search of a valid query in which every backend gave zero candidates
\* is answered with status 404 and code IMAGE_NOT_FOUND, whatever the text of
\* the query.
C11_NoCandidateIs404 ==
    (pc = "done" /\ QueryIsValid /\ NoBackendGaveCandidate) =>
        response.status = 404 /\ response.code = "IMAGE_NOT_FOUND"

\* whether the bytes of buffer from offset at on are sig
HasBytesAt(buffer, at, sig) ==
    /\ buffer.len >= at + Len(sig)
    /\ SubSeq(buffer.head, at + 1, at + Len(sig)) = sig

IsRiffWebp(buffer) ==
    HasBytesAt(buffer, 0, <<82, 73, 70, 70>>) /\ HasBytesAt(buffer, 8, <<87, 69, 66, 80>>)

\* the content type the table of signatures gives the buffers in Which
SniffedByTable(Which(_)) ==
    pc = "sniffed" =>
        LET b == resultado.buffer
            type == response.contentType
        IN  Which(b) =>
              /\ HasBytesAt(b, 0, <<255, 216>>) => type = "image/jpeg"
              /\ HasBytesAt(b, 0, <<137, 80, 78, 71>>) => type = "image/png"
              /\ HasBytesAt(b, 0, <<71, 73, 70>>) => type = "image/gif"
              /\ IsRiffWebp(b) => type = "image/webp"
              /\ ( ~HasBytesAt(b, 0, <<255, 216>>) /\ ~HasBytesAt(b, 0, <<137, 80, 78, 71>>) /\
                   ~HasBytesAt(b, 0, <<71, 73, 70>>) /\ ~IsRiffWebp(b) ) => type = "image/jpeg"

AnyBuffer(b) == TRUE

AtLeastFourBytes(b) == b.len >= 4

\* C12 as stated: for every byte buffer, leading FF D8 gives JPEG, leading
\* 89 50 4E 47 gives PNG, leading 47 49 46 gives GIF, RIFF at 0-3 with WEBP
\* at 8-11 gives WEBP, and a buffer matching none of these gets JPEG.
C12_SniffEveryBuffer == SniffedByTable(AnyBuffer)

\* C12 amended: the table is followed for every buffer of at least 4 bytes;
\* a buffer of fewer than 4 bytes gets JPEG whatever its bytes are, and so
\* does a buffer of at least 4 bytes that matches none of the signatures.
C12_SniffFromFourBytes ==
    /\ SniffedByTable(AtLeastFourBytes)
    /\ (pc = "sniffed" /\ resultado.buffer.len < 4) => response.contentType = "image/jpeg"

C12_Witness ==
    /\ pc = "sniffed"
    /\ resultado.buffer.len = 12
    /\ resultado.buffer.head = <<82, 73, 70, 70, 36, 0, 0, 0, 87, 69, 66, 80>>
    /\ response.contentType = "image/webp"

\* the format of the signature of the gate's table that buffer begins with
FormatAtGate(buffer) ==
    CASE HasBytesAt(buffer, 0, <<255, 216>>) -> "image/jpeg"
      [] HasBytesAt(buffer, 0, <<137, 80, 78, 71>>) -> "image/png"
      [] HasBytesAt(buffer, 0, <<71, 73, 70>>) -> "image/gif"
      [] HasBytesAt(buffer, 0, <<82, 73, 70, 70>>) -> "image/webp"
      [] HasBytesAt(buffer, 0, <<66, 77>>) -> "image/bmp"
      [] OTHER -> "none"

\* C13: when the search returns bytes, the response has status 200, its body
\* is those bytes, its X-Image-Size is their length in decimal, and its
\* Content-Type is the format of the signature under which the bytes passed
\* the gate, BMP for the signature 42 4D.
C13_FoundResponse ==
    (pc = "done" /\ resultado # Null /\ resultado.kind = "buffer") =>
        /\ response.status = 200
        /\ response.body = resultado.buffer
        /\ response.size = Digits(resultado.buffer.len)
        /\ response.contentType = FormatAtGate(resultado.buffer)

\* C14: the status and code of an error response are a function of the
\* failure text, by the first of these that applies: the text contains
\* "timeout" or "econnreset": 503 SERVICE_TIMEOUT; it contains "403" or
\* "forbidden": 502 ACCESS_BLOCKED; it contains "500" or "502": 502
\* UPSTREAM_ERROR; otherwise 404 IMAGE_NOT_FOUND.
C14_ClassificationByPriority ==
    pc = "classified" =>
        LET text == resultado.error
        IN  <<response.status, response.code>> =
                IF Includes(text, "timeout") \/ Includes(text, "econnreset")
                THEN <<503, "SERVICE_TIMEOUT">>
                ELSE IF Includes(text, "403") \/ Includes(text, "forbidden")
                THEN <<502, "ACCESS_BLOCKED">>
                ELSE IF Includes(text, "500") \/ Includes(text, "502")
                THEN <<502, "UPSTREAM_ERROR">>
                ELSE <<404, "IMAGE_NOT_FOUND">>

\* C15: failure texts that differ only in letter case get the same status
\* and code.
C15_ClassificationIgnoresCase ==
    pc = "classified" =>
        \A other \in FailureTexts :
            ToLowerCase(other) = ToLowerCase(resultado.error) =>
                ClassifyError(other) = <<response.status, response.code>>

\* C16: the validator accepts a URL exactly when it starts with "http://" or
\* "https://", contains none of the blacklisted substrings in any letter
\* case, and parses as an absolute URL.
C16_UrlValidator ==
    pc = "tested" =>
        LET url == inflight.url
            lower == ToLowerCase(url)
        IN  (imagemUrl = url /\ url # "") <=>
                /\ StartsWith(url, "http://") \/ StartsWith(url, "https://")
                /\ \A bad \in {"data:image", ".svg", "logo", "icon", "avatar", "blank", "1x1"} :
                       ~Includes(lower, bad)
                /\ UrlParses(url)

\* C17: every download request of a search, primary or alternative, is for
\* the one URL the search of the backends gave; once a download has been
\* requested no backend is asked again, so no other candidate is taken up
\* when a download fails.
C17_OneCandidatePerQuery ==
    /\ \A i \in 1..Len(trace) :
          trace[i].ev \in {"download", "alternative"} =>
              /\ trace[i].url = imagemUrl /\ imagemUrl # ""
              /\ imagemUrl = results[Len(results)].url
              /\ \A j \in (i + 1)..Len(trace) : trace[j].ev # "search"
    /\ (inflight # Null /\ inflight.kind \in {"download", "alternative"}) =>
           inflight.url = imagemUrl /\ imagemUrl # ""
    /\ Len(results) = Len(EventsOf("search")) - (IF pc = "search" THEN 1 ELSE 0)
    /\ \A i \in 1..Len(results) : results[i].url # "" => i = Len(results)

C17_Witness ==
    /\ pc = "done"
    /\ resultado # Null /\ resultado.kind = "error"
    /\ Len(EventsOf("download")) = 3
    /\ Len(EventsOf("alternative")) = 1
    /\ SearchedEngines = <<"Bing">>
    /\ \A i \in 1..Len(trace) :
          trace[i].ev \in {"download", "alternative"} => trace[i].url = PhotoUrl

\* the search ended with the alternative request throwing
AlternativeThrew ==
    /\ pc = "done"
    /\ Len(trace) >= 2
    /\ trace[Len(trace) - 1].ev = "alternative"
    /\ trace[Len(trace)].ev = "reply" /\ trace[Len(trace)].outcome = "threw"

PipelineThrew ==
    pc = "done" /\ resultado # Null /\ Includes(cleanQuery, LoneSurrogate)

\* C19: an exception inside the search is caught by buscarImagem and the
\* response reports an internal error: its code is neither the one of
\* NotFound nor one of the download failures, its message is a generic one,
\* and outside development mode the message has no detail of the exception.
C19_InternalErrorReported ==
    PipelineThrew =>
        /\ resultado.kind = "error"
        /\ response.code \notin {"IMAGE_NOT_FOUND", "SERVICE_TIMEOUT", "ACCESS_BLOCKED",
                                 "UPSTREAM_ERROR"}
        /\ StartsWith(response.error, "Erro interno")
        /\ nodeEnv # "development" => ~Includes(response.error, "URI malformed")

\* C20: bytes that begin with 52 49 46 46 pass the gate only when their
\* bytes 8-11 are 57 45 42 50: the search never returns a RIFF container
\* that is not WEBP, whatever its size.
C20_RiffNeedsWebp ==
    (resultado # Null /\ resultado.kind = "buffer") =>
        (HasBytesAt(resultado.buffer, 0, <<82, 73, 70, 70>>) => IsRiffWebp(resultado.buffer))

\* C21: a backend response with a status below 400 and an HTML body has its
\* body parsed, whatever the status is: the backend gives the candidate the
\* parser selects in that body.
C21_SuccessBelow400 ==
    (pc = "answered" /\ inflight.reply.type = "response" /\ inflight.reply.status < 400
        /\ inflight.reply.data.kind = "html") =>
        /\ results[1].outcome # "threw"
        /\ results[1].url = EngineParser(searchEngines[engineIdx], inflight.reply.data.html)

\* the origin of the backend that gave the URL being downloaded
WinningOrigin ==
    IF results[Len(results)].engine = "Bing" THEN "https://www.bing.com"
    ELSE "https://duckduckgo.com"

\* C22: the referer of every primary download request is the origin of the
\* backend that gave the candidate: DuckDuckGo's when DuckDuckGo gave it.
C22_RefererOfWinningBackend ==
    (inflight # Null /\ inflight.kind = "download") =>
        inflight.referer = WinningOrigin \o "/"

IsRequest(e) == e.ev \in {"search", "download", "alternative"}

\* C23: at most one request of a search is awaited at any time: a request is
\* issued only when every earlier request has been answered; DuckDuckGo is
\* asked only after Bing's request has resolved; download attempt n+1 is
\* issued only after the reply to attempt n and after the sleep that follows
\* it has elapsed; the alternative request only after the reply to the third
\* primary attempt; and nothing is awaited during a sleep.
C23_OneRequestInFlight ==
    /\ Len(SelectSeq(trace, IsRequest)) - Len(EventsOf("reply"))
           = (IF inflight # Null THEN 1 ELSE 0)
    /\ pc = "delay" => inflight = Null /\ trace[Len(trace)].ev = "delay"
    /\ \A i \in 1..Len(trace) :
          /\ (IsRequest(trace[i]) /\ i < Len(trace)) => trace[i + 1].ev = "reply"
          /\ (IsRequest(trace[i]) /\ i > 1) => trace[i - 1].ev \in {"reply", "delay"}
          /\ (trace[i].ev = "search" /\ trace[i].engine = "DuckDuckGo") =>
                 i = 3 /\ trace[1].ev = "search" /\ trace[1].engine = "Bing"
                       /\ trace[2].ev = "reply"
          /\ (trace[i].ev = "download" /\ trace[i].attempt > 1) =>
                 /\ i > 3
                 /\ trace[i - 1].ev = "delay" /\ trace[i - 1].attempt = trace[i].attempt
                 /\ trace[i - 2].ev = "reply"
                 /\ trace[i - 3].ev = "download"
                 /\ trace[i - 3].attempt = trace[i].attempt - 1
          /\ trace[i].ev = "alternative" =>
                 /\ i > 2
                 /\ trace[i - 1].ev = "reply"
                 /\ trace[i - 2].ev = "download" /\ trace[i - 2].attempt = 3

C23_Witness ==
    /\ pc = "alternative" /\ inflight # Null
    /\ SearchedEngines = <<"Bing", "DuckDuckGo">>
    /\ Len(EventsOf("download")) = 3
    /\ DelaysMs = <<2000, 3000>>

\* the suspended search was given the query and the replies of the running one
SameInputs == peer # Null /\ peer.query = query /\ peer.log = log

\* C24: whatever the interleaving of two searches, a search's attempt
\* counter, selected URL and outcome are those of the query and the replies
\* it was given itself: two searches given the same query and the same
\* replies agree on them, however the steps of the two were interleaved (one
\* after the other included); and the identity pool stays as it was built.
C24_SearchesShareNoState ==
    /\ pool = USER_AGENTS
    /\ SameInputs =>
           /\ peer.attempt = attempt
           /\ peer.imagemUrl = imagemUrl
           /\ peer.resultado = resultado
           /\ peer.response = response

C24_Witness ==
    /\ SameInputs
    /\ Len(log) = 5
    /\ pc = "done" /\ peer.pc = "done"
    /\ attempt = 3 /\ resultado.kind = "buffer"

\* url when the validator passes it, "" otherwise
Passing(url) == IF url # "" /\ isValidImageUrl(url) THEN url ELSE ""

\* the candidate of one element by the fallbacks in their stated order: the
\* murl of the attribute m parsed as JSON; the regular expression over the
\* raw attribute, only when the JSON parse failed; the image source
StatedElementCandidate(engine, el) ==
    IF engine.name = "Bing"
    THEN LET json  == IF el.m.raw # "" /\ el.m.parsed = "object" /\ el.m.murlIsString
                      THEN Passing(el.m.murl) ELSE ""
             regex == IF el.m.raw # "" /\ el.m.parsed = "SyntaxError"
                      THEN Passing(MurlRegex(el.m.raw)) ELSE ""
             image == Passing(IF el.img.src # "" THEN el.img.src ELSE el.img.dataSrc)
         IN  IF json # "" THEN json ELSE IF regex # "" THEN regex ELSE image
    ELSE Passing(IF el.src # "" THEN el.src
                 ELSE IF el.dataSrc # "" THEN el.dataSrc ELSE el.img.src)

\* the candidate of a page: rules in their listed order, the matches of a
\* rule in document order up to the cap
StatedCandidate(engine, html) ==
    LET cap == IF engine.name = "Bing" THEN 5 ELSE 3
        matches(s) == SelectSeq(html, LAMBDA el : Matches(el, engine.selectors[s]))
        hits == {p \in (1..Len(engine.selectors)) \X (1..cap) :
                    /\ p[2] <= Len(matches(p[1]))
                    /\ StatedElementCandidate(engine, matches(p[1])[p[2]]) # ""}
    IN  IF hits = {} THEN ""
        ELSE LET first == CHOOSE p \in hits :
                              \A o \in hits : p[1] < o[1] \/ (p[1] = o[1] /\ p[2] <= o[2])
             IN  StatedElementCandidate(engine, matches(first[1])[first[2]])

\* C25: the candidate a backend gives for a page is the first URL passing the
\* validator with the rules scanned in their listed order, the matches of a
\* rule in document order up to the cap (5 for Bing, 3 for DuckDuckGo), and
\* per element the fallbacks JSON, then the regular expression only when the
\* JSON parse fails, then the image source.
C25_ParserOrder ==
    (pc = "answered" /\ inflight.reply.type = "response" /\ inflight.reply.status = 200
        /\ inflight.reply.data.kind = "html") =>
        results[1].url = StatedCandidate(searchEngines[engineIdx], inflight.reply.data.html)

\* C26: the requests, sleeps and replies of a search are those its replies
\* lead to, whatever the failure text classifies to: two searches given the
\* same replies have made the same sequence of backend requests, download
\* attempts, sleeps and alternative attempt (up to a sleep that has elapsed
\* for one and not yet for the other), also when their failure texts
\* classify differently; and a response is classified only when the search
\* has ended, after which the search makes no request.
C26_ClassificationChangesNoRetry ==
    /\ (response # Null /\ response.status # 400) =>
           /\ pc = "done" /\ inflight = Null
           /\ resultado # Null
           /\ (resultado.kind = "error" => response.error = resultado.error)
    /\ (peer # Null /\ peer.log = log /\ pc # "idle" /\ peer.pc # "idle") =>
           /\ IsPrefix(trace, peer.trace) \/ IsPrefix(peer.trace, trace)
           /\ peer.pc = pc => peer.trace = trace
           /\ peer.attempt = attempt

C26_Witness ==
    /\ peer # Null /\ peer.log = log
    /\ pc = "done" /\ peer.pc = "done"
    /\ Len(EventsOf("alternative")) = 1
    /\ response.code = "IMAGE_NOT_FOUND"
    /\ peer.response.code = "SERVICE_TIMEOUT"
    /\ peer.trace = trace

\* the reply consumed at the j-th event of the trace, a "reply" event
ReplyAt(j) == log[Cardinality({i \in 1..j : trace[i].ev = "reply"})]

AnsweredAt == {j \in 2..Len(trace) : trace[j].ev = "reply"}

SizeSignatureGate(reply) ==
    /\ reply.type = "response"
    /\ reply.data.len > MinImageBytes
    /\ isValidImageBuffer(reply.data)

\* C27: the alternative attempt accepts a response of any status, 400 and
\* above included, exactly when it carries more than 512 bytes with a
\* recognised signature, and the bytes are then the result of the search,
\* answered with 200; a primary attempt answered with a status of 400 or
\* above is a failed attempt.
C27_AlternativeAcceptsAnyStatus ==
    peer # Null =>
        /\ Len(log) = Len(EventsOf("reply"))
        /\ \A j \in AnsweredAt :
              /\ trace[j - 1].ev = "download" /\ ReplyAt(j).status >= ErrorStatusFloor
                     => trace[j].outcome = "threw"
              /\ trace[j - 1].ev = "alternative" =>
                     /\ trace[j].outcome = "accepted" <=> SizeSignatureGate(ReplyAt(j))
                     /\ SizeSignatureGate(ReplyAt(j)) =>
                            /\ resultado = BufferResult(ReplyAt(j).data)
                            /\ response.status = 200

C27_Witness ==
    /\ peer # Null /\ pc = "done" /\ Len(trace) > 2
    /\ trace[Len(trace) - 1].ev = "alternative"
    /\ log[Len(log)].status = 403
    /\ log[Len(log) - 1].status = 403
    /\ IsBuffer(resultado) /\ resultado.buffer.len = 600
    /\ response.status = 200
    /\ Len(SelectSeq(trace, LAMBDA e : e.ev = "reply" /\ e.outcome = "threw")) = MaxRetries

RequestBudget ==
    /\ Len(EventsOf("search")) <= Len(searchEngines)
    /\ Len(EventsOf("download")) <= MaxRetries
    /\ Len(EventsOf("alternative")) <= 1
    /\ Len(EventsOf("alternative")) = 1 => Len(EventsOf("download")) = MaxRetries

\* C28: when every awaited request and timer settles, a search that has
\* started ends; and at every moment one search has issued at most 2 backend
\* requests, at most 3 primary download requests and at most 1 alternative
\* request, the alternative one only after three primary requests.
C28_SearchTerminates ==
    /\ []RequestBudget
    /\ (pc # "idle") ~> (pc = "done")

C28_Witness ==
    /\ pc = "done"
    /\ Len(EventsOf("search")) = 2
    /\ Len(EventsOf("download")) = MaxRetries
    /\ Len(EventsOf("alternative")) = 1
    /\ Len(EventsOf("reply")) = 6

\* the image source attributes a parser reads of an element, in its order
SourceAttributes(engine, el) ==
    IF engine = "Bing" THEN <<el.img.src, el.img.dataSrc>>
    ELSE <<el.src, el.dataSrc, el.img.src>>

NonEmpty(attributes) == SelectSeq(attributes, LAMBDA a : a # "")

\* a backend was answered 200 with a page of one element, which a selector of
\* the backend matches and which has no m attribute
OneElementAnswered ==
    /\ pc = "answered"
    /\ inflight.reply.type = "response" /\ inflight.reply.status = 200
    /\ inflight.reply.data.kind = "html"
    /\ Len(inflight.reply.data.html) = 1
    /\ inflight.reply.data.html[1].m.raw = ""
    /\ \E k \in 1..Len(searchEngines[engineIdx].selectors) :
          Matches(inflight.reply.data.html[1], searchEngines[engineIdx].selectors[k])

AnsweredSources == NonEmpty(SourceAttributes(inflight.engine, inflight.reply.data.html[1]))

\* C29: of the image source attributes of an element the parser takes the
\* first non-empty one and validates that one alone: it is the candidate when
\* it passes the URL validator, and the element yields no candidate when it
\* fails, also when a later attribute holds an acceptable URL.
C29_FirstAttributeOnly ==
    OneElementAnswered =>
        results[1].url = (IF AnsweredSources # <<>> /\ isValidImageUrl(AnsweredSources[1])
                          THEN AnsweredSources[1] ELSE "")

C29_Witness ==
    /\ OneElementAnswered
    /\ inflight.engine = "DuckDuckGo"
    /\ Len(AnsweredSources) = 2
    /\ ~isValidImageUrl(AnsweredSources[1])
    /\ isValidImageUrl(AnsweredSources[2])
    /\ results[1].url = "" /\ results[1].outcome = "null"

\* request a with the identity of request b
WithIdentityOf(a, b) == [a EXCEPT !.userAgent = b.userAgent]

\* C30: the identity drawn for a request does not influence the control
\* flow: two runs of the same query given the same backend and download
\* replies, whatever identities each drew, have asked the same backends,
\* selected the same URL, made the same attempts and sleeps, await requests
\* that differ at most in the identity, and end with the same outcome.
C30_IdentityOutOfControlFlow ==
    SameInputs =>
        /\ peer.results = results
        /\ peer.imagemUrl = imagemUrl
        /\ peer.attempt = attempt
        /\ IsPrefix(trace, peer.trace) \/ IsPrefix(peer.trace, trace)
        /\ peer.pc = pc =>
               /\ peer.trace = trace
               /\ (peer.inflight = Null) = (inflight = Null)
               /\ inflight # Null => WithIdentityOf(peer.inflight, inflight) = inflight
        /\ (pc = "done" /\ peer.pc = "done") =>
               peer.resultado = resultado /\ peer.response = response

C30_Witness ==
    /\ SameInputs
    /\ pc = "download" /\ peer.pc = "download"
    /\ attempt = MaxRetries
    /\ SearchedEngines = <<"Bing", "DuckDuckGo">>
    /\ peer.inflight.userAgent # inflight.userAgent
    /\ peer.trace = trace

====
